---- MODULE Spec2Model ----
(***************************************************************************)
(* Treap of src/temp.cpp: NodeImpl<int,int> with split / insert / exists / *)
(* height, driven by main (the non-STTREE build, SANITY_CHECK enabled).    *)
(*                                                                         *)
(* The heap is modelled as memory cells.  A C++ reference parameter of     *)
(* type Node& (a reference to a pointer variable) is a cell address:       *)
(*   <<"x", 0>>      the local variable x of main,                         *)
(*   <<"left", n>>   the member n->left of node n,                         *)
(*   <<"right", n>>  the member n->right of node n.                        *)
(* Nodes are numbered 1, 2, ... in allocation order; NULL is 0.  The       *)
(* payload is never read by any operation and is left out.                 *)
(***************************************************************************)
EXTENDS Integers, Sequences, FiniteSets, TLC

\* Bounds of the model.
MaxKey == 4      \* keys read from cin are drawn from 1..MaxKey
MaxPrio == 3     \* rand() is drawn from 1..MaxPrio
MaxNodes == 3    \* main reads at most MaxNodes pairs
CheckLimit == 5  \* the sanity loop runs i = 0 .. CheckLimit-1

Keys == 1..MaxKey
Prios == 1..MaxPrio
NULL == 0

VARIABLES
  x,          \* main: Node * x
  tree_key,   \* tree_key[n]: NodeImpl::tree_key of node n
  heap_key,   \* heap_key[n]: NodeImpl::heap_key of node n
  left,       \* left[n]:  NodeImpl::left of node n
  right,      \* right[n]: NodeImpl::right of node n
  pc,         \* position of main: "read", "check", "done", "abort"
  hgt,        \* the height printed by main (0 before it is printed)
  last        \* the split call made by the latest insert, if any

vars == <<x, tree_key, heap_key, left, right, pc, hgt, last>>

\* The heap as one value, so that the static member functions are operators.
Heap == [x |-> x, tree_key |-> tree_key, heap_key |-> heap_key,
         left |-> left, right |-> right]

\* Reading through a reference to a pointer variable.
Load(h, a) ==
  IF a[1] = "x" THEN h.x
  ELSE IF a[1] = "left" THEN h.left[a[2]]
  ELSE h.right[a[2]]

\* Assigning through a reference to a pointer variable.
Store(h, a, v) ==
  IF a[1] = "x" THEN [h EXCEPT !.x = v]
  ELSE IF a[1] = "left" THEN [h EXCEPT !.left[a[2]] = v]
  ELSE [h EXCEPT !.right[a[2]] = v]

\* new Node(k, v) with heap_key p drawn by new_heap_key(): left = right = NULL.
NewNode(h, k, p) ==
  [h EXCEPT !.tree_key = Append(@, k), !.heap_key = Append(@, p),
            !.left = Append(@, NULL), !.right = Append(@, NULL)]

\* NodeImpl::exists(treap, k), treap passed by value.
RECURSIVE exists(_, _, _)
exists(h, treap, k) ==
  IF treap = NULL THEN FALSE
  ELSE IF k = h.tree_key[treap] THEN TRUE
  ELSE exists(h, IF k < h.tree_key[treap] THEN h.left[treap] ELSE h.right[treap], k)

\* split with the pivot comparison k <= treap->tree_key instead of k < ...:
\* a node whose key equals the pivot goes to r.
RECURSIVE split_le(_, _, _, _, _)
split_le(h, treap, k, l, r) ==
  LET t == Load(h, treap) IN
  IF t = NULL THEN Store(Store(h, r, NULL), l, NULL)
  ELSE IF k <= h.tree_key[t] THEN
    LET h1 == split_le(h, <<"left", t>>, k, l, <<"left", t>>)
    IN  Store(h1, r, Load(h1, treap))
  ELSE
    LET h1 == split_le(h, <<"right", t>>, k, <<"right", t>>, r)
    IN  Store(h1, l, Load(h1, treap))

\* split whose empty-tree case leaves the out-parameters as they are.
RECURSIVE split_noreset(_, _, _, _, _)
split_noreset(h, treap, k, l, r) ==
  LET t == Load(h, treap) IN
  IF t = NULL THEN h
  ELSE IF k < h.tree_key[t] THEN
    LET h1 == split_noreset(h, <<"left", t>>, k, l, <<"left", t>>)
    IN  Store(h1, r, Load(h1, treap))
  ELSE
    LET h1 == split_noreset(h, <<"right", t>>, k, <<"right", t>>, r)
    IN  Store(h1, l, Load(h1, treap))

\* NodeImpl::split(treap, k, l, r): treap, l and r are references (cell
\* addresses); the final assignment reads treap again, after the nested call.
RECURSIVE split(_, _, _, _, _)
split(h, treap, k, l, r) ==
  LET t == Load(h, treap) IN
  IF t = NULL THEN Store(Store(h, r, NULL), l, NULL)
  ELSE IF k < h.tree_key[t] THEN
    LET h1 == split(h, <<"left", t>>, k, l, <<"left", t>>)
    IN  Store(h1, r, Load(h1, treap))
  ELSE
    LET h1 == split(h, <<"right", t>>, k, <<"right", t>>, r)
    IN  Store(h1, l, Load(h1, treap))

RECURSIVE insert(_, _, _)

\* insert descending to the wrong side: right for a smaller key.
insert_wrongside(h, treap, new_node) ==
  LET t == Load(h, treap) IN
  IF t = NULL THEN Store(h, treap, new_node)
  ELSE IF h.heap_key[t] > h.heap_key[new_node] THEN
    insert(h, IF h.tree_key[new_node] < h.tree_key[t]
              THEN <<"right", t>> ELSE <<"left", t>>, new_node)
  ELSE
    LET h1 == split(h, treap, h.tree_key[new_node],
                    <<"left", new_node>>, <<"right", new_node>>)
    IN  Store(h1, treap, new_node)

\* insert with the priority comparison turned round (< for >).
insert_minheap(h, treap, new_node) ==
  LET t == Load(h, treap) IN
  IF t = NULL THEN Store(h, treap, new_node)
  ELSE IF h.heap_key[t] < h.heap_key[new_node] THEN
    insert(h, IF h.tree_key[new_node] < h.tree_key[t]
              THEN <<"left", t>> ELSE <<"right", t>>, new_node)
  ELSE
    LET h1 == split(h, treap, h.tree_key[new_node],
                    <<"left", new_node>>, <<"right", new_node>>)
    IN  Store(h1, treap, new_node)

\* NodeImpl::insert(treap, new_node): treap is a reference, new_node a value.
insert(h, treap, new_node) ==
  LET t == Load(h, treap) IN
  IF t = NULL THEN Store(h, treap, new_node)
  ELSE IF h.heap_key[t] > h.heap_key[new_node] THEN
    insert(h, IF h.tree_key[new_node] < h.tree_key[t]
              THEN <<"left", t>> ELSE <<"right", t>>, new_node)
  ELSE
    LET h1 == split(h, treap, h.tree_key[new_node],
                    <<"left", new_node>>, <<"right", new_node>>)
    IN  Store(h1, treap, new_node)

\* NodeImpl::height(treap).
RECURSIVE height(_, _)
height(h, treap) ==
  IF treap = NULL THEN 0
  ELSE LET lh == height(h, h.left[treap])
           rh == height(h, h.right[treap])
       IN  1 + (IF lh < rh THEN rh ELSE lh)

\* The cell on which insert(treap, new_node) calls split (line 69), or
\* <<"none", 0>> when insert ends in the empty-tree branch (line 63).
RECURSIVE SplitSite(_, _, _)
SplitSite(h, treap, new_node) ==
  LET t == Load(h, treap) IN
  IF t = NULL THEN <<"none", 0>>
  ELSE IF h.heap_key[t] > h.heap_key[new_node] THEN
    SplitSite(h, IF h.tree_key[new_node] < h.tree_key[t]
                 THEN <<"left", t>> ELSE <<"right", t>>, new_node)
  ELSE treap

NoSplit == [called |-> FALSE]

Init ==
  /\ x = NULL
  /\ tree_key = <<>>
  /\ heap_key = <<>>
  /\ left = <<>>
  /\ right = <<>>
  /\ pc = "read"
  /\ hgt = 0
  /\ last = NoSplit

\* main, lines 90-93, for one pair: cin >> k >> v yields key k (and a payload);
\* new Node(k, v) draws its heap_key from rand(); insert(x, new Node(k, v)).
Read(k) ==
  /\ pc = "read"
  /\ \E p \in Prios :
       LET h0 == NewNode(Heap, k, p)
           n  == Len(h0.tree_key)
           s  == SplitSite(h0, <<"x", 0>>, n)
           h1 == insert(h0, <<"x", 0>>, n)
       IN  /\ x' = h1.x
           /\ tree_key' = h1.tree_key
           /\ heap_key' = h1.heap_key
           /\ left' = h1.left
           /\ right' = h1.right
           /\ last' = IF s[1] = "none" THEN NoSplit
                      ELSE [called |-> TRUE, pre |-> h0, treap |-> s, k |-> k,
                            new_node |-> n,
                            post |-> split(h0, s, k, <<"left", n>>, <<"right", n>>)]
  /\ UNCHANGED <<pc, hgt>>

\* The while loop of main on arbitrary input.
ReadInsert ==
  /\ Len(tree_key) < MaxNodes
  /\ \E k \in Keys : Read(k)

\* main, line 94: the input is exhausted; the height is computed and printed.
\* (The estimate 2*log(i) printed next to it comes from the counter i, which
\* main never initialises; it is output only and not part of the state.)
PrintHeight ==
  /\ pc = "read"
  /\ hgt' = height(Heap, x)
  /\ pc' = "check"
  /\ UNCHANGED <<x, tree_key, heap_key, left, right, last>>

\* main, lines 95-103 (SANITY_CHECK): for i = 0 .. CheckLimit-1 the assert
\* demands exists(x, i) exactly for odd i; a failed assert aborts the program.
SanityCheck ==
  /\ pc = "check"
  /\ pc' = IF \A i \in 0..(CheckLimit - 1) : exists(Heap, x, i) <=> (i % 2 = 1)
           THEN "done" ELSE "abort"
  /\ UNCHANGED <<x, tree_key, heap_key, left, right, hgt, last>>

Next == ReadInsert \/ PrintHeight \/ SanityCheck

Spec == Init /\ [][Next]_vars

\* The concrete scenario: main run on the keys 5, 3, 8, 1, 4 (any payloads),
\* the priorities being whatever rand() returns; the input then ends.
ScenarioKeys == <<5, 3, 8, 1, 4>>

ReadScenario ==
  /\ Len(tree_key) < Len(ScenarioKeys)
  /\ Read(ScenarioKeys[Len(tree_key) + 1])

EndScenario ==
  /\ Len(tree_key) = Len(ScenarioKeys)
  /\ PrintHeight

ScenarioNext == ReadScenario \/ EndScenario \/ SanityCheck

SpecScenario == Init /\ [][ScenarioNext]_vars

----------------------------------------------------------------------------
\* Vocabulary of the properties.

Kids(h, S) == {h.left[n] : n \in S} \cup {h.right[n] : n \in S}

RECURSIVE Closure(_, _)
Closure(h, S) ==
  LET S2 == (S \cup Kids(h, S)) \ {NULL}
  IN  IF S2 = S THEN S ELSE Closure(h, S2)

\* The nodes reachable from pointer n through left/right.
Reach(h, n) == Closure(h, {n} \ {NULL})

\* The nodes allocated so far, reachable or not.
Allocated == 1..Len(tree_key)

DistinctKeys == \A i, j \in Allocated : i # j => tree_key[i] # tree_key[j]
DistinctPrios == \A i, j \in Allocated : i # j => heap_key[i] # heap_key[j]

\* The pointers reachable from the roots in Roots form a tree (a forest).
IsForest(h, Roots) ==
  LET R == UNION {Reach(h, r) : r \in Roots} IN
  /\ \A n \in R : h.left[n] = NULL \/ h.left[n] # h.right[n]
  /\ \A a, b \in R : a # b => (Kids(h, {a}) \cap Kids(h, {b})) \ {NULL} = {}
  /\ \A n \in R : n \notin Closure(h, Kids(h, {n}) \ {NULL})
  /\ \A r \in Roots : \A n \in R : r \notin Kids(h, {n}) \ {NULL}

\* The results of the latest split: the trees left in new_node->left and
\* new_node->right, and the tree the split was called on.
SplitL == last.post.left[last.new_node]
SplitR == last.post.right[last.new_node]
SplitT == Load(last.pre, last.treap)

\* Number of nodes of S that carry key k.
KeyCount(S, k) == Cardinality({n \in S : tree_key[n] = k})

\* The heap before main has allocated anything.
EmptyHeap == [x |-> NULL, tree_key |-> <<>>, heap_key |-> <<>>,
              left |-> <<>>, right |-> <<>>]

\* The heap main ends with when it reads the allocated nodes in the order
\* perm[1], perm[2], ...: node i of that run is node perm[i] of this one.
RECURSIVE BuildInOrder(_, _)
BuildInOrder(perm, i) ==
  IF i = 0 THEN EmptyHeap
  ELSE insert(NewNode(BuildInOrder(perm, i - 1),
                      tree_key[perm[i]], heap_key[perm[i]]), <<"x", 0>>, i)

\* Pointer p of the run in order perm, named as a node of this run.
Renamed(perm, p) == IF p = NULL THEN NULL ELSE perm[p]

\* h, built in order perm, is the same tree as the current one.
SameTree(perm, h) ==
  /\ Renamed(perm, h.x) = x
  /\ \A i \in Allocated :
       /\ Renamed(perm, h.left[i]) = left[perm[i]]
       /\ Renamed(perm, h.right[i]) = right[perm[i]]

\* In the call split(treap, k, l, r) on heap h and in every call nested in it,
\* the final assignment (line 50 or 54) stores the node that treap referred to
\* when that call was entered.
RECURSIVE StoresEntryNode(_, _, _, _, _)
StoresEntryNode(h, treap, k, l, r) ==
  LET t == Load(h, treap) IN
  IF t = NULL THEN TRUE
  ELSE IF k < h.tree_key[t] THEN
    /\ StoresEntryNode(h, <<"left", t>>, k, l, <<"left", t>>)
    /\ Load(split(h, treap, k, l, r), r) = t
  ELSE
    /\ StoresEntryNode(h, <<"right", t>>, k, <<"right", t>>, r)
    /\ Load(split(h, treap, k, l, r), l) = t

----------------------------------------------------------------------------
\* C1: with pairwise distinct keys, exists(x, k) is true exactly for the keys
\* that were passed to insert; an inserted key stays findable.
C1_ExistsIffInserted ==
  DistinctKeys =>
    \A k \in Keys : exists(Heap, x, k) <=> (\E n \in Allocated : tree_key[n] = k)

\* C2: an insert of a node whose key is not in the tree makes the set of
\* nodes reachable from the root the old set plus the new node.
C2_InsertAddsOneNode ==
  [][(/\ Len(tree_key') = Len(tree_key) + 1
      /\ \A n \in Reach(Heap, x) : tree_key[n] # tree_key'[Len(tree_key')])
     => Reach(Heap', x') = Reach(Heap, x) \cup {Len(tree_key')}]_vars

\* C3: the split made by insert leaves in l and r together exactly the
\* multiset of keys of the tree it was called on.
C3_SplitKeepsKeys ==
  last.called =>
    \A k \in Keys :
      KeyCount(Reach(last.post, SplitL), k) + KeyCount(Reach(last.post, SplitR), k)
        = KeyCount(Reach(last.pre, SplitT), k)

C5_BST ==
  DistinctKeys =>
    \A n \in Reach(Heap, x) :
      /\ \A m \in Reach(Heap, left[n]) : tree_key[m] < tree_key[n]
      /\ \A m \in Reach(Heap, right[n]) : tree_key[m] > tree_key[n]

C5_Witness ==
  /\ DistinctKeys
  /\ Cardinality(Reach(Heap, x)) = 3
  /\ left[x] # NULL
  /\ right[x] # NULL

\* C6: heap invariant.  Every reachable node's priority is >= that of each
\* of its children, and the root holds a maximum priority of the tree.
C6_Heap ==
  /\ \A n \in Reach(Heap, x) :
       \A c \in Kids(Heap, {n}) \ {NULL} : heap_key[n] >= heap_key[c]
  /\ \A n \in Reach(Heap, x) : heap_key[x] >= heap_key[n]

C6_Witness ==
  /\ last.called
  /\ Cardinality(Reach(Heap, x)) = 3
  /\ \E n \in Reach(Heap, x) :
       \E c \in Kids(Heap, {n}) \ {NULL} : heap_key[n] = heap_key[c]
  /\ \E n \in Reach(Heap, x) :
       \E c \in Kids(Heap, {n}) \ {NULL} : heap_key[n] > heap_key[c]

\* C7: with pairwise distinct keys and pairwise distinct priorities, reading
\* the same nodes in any other order builds the same tree.
C7_OrderIndependent ==
  (DistinctKeys /\ DistinctPrios) =>
    \A perm \in Permutations(Allocated) :
      SameTree(perm, BuildInOrder(perm, Len(tree_key)))

\* C8: the height printed for n >= 1 nodes with pairwise distinct keys is at
\* least ceil(log2(n+1)), i.e. n + 1 <= 2^height, and at most n; for the keys
\* 5, 3, 8, 1, 4 it lies between 3 and 5.
C8_HeightBounds ==
  (pc # "read" /\ DistinctKeys /\ Len(tree_key) >= 1) =>
    /\ Len(tree_key) + 1 <= 2 ^ hgt
    /\ hgt <= Len(tree_key)

\* C9: exclusive ownership.  After every insert the pointers reachable from
\* the root form a tree, and after every split those reachable from l and r
\* form two trees that share no node.
C9_ExclusiveOwnership ==
  /\ IsForest(Heap, {x})
  /\ last.called =>
       /\ IsForest(last.post, {SplitL, SplitR})
       /\ Reach(last.post, SplitL) \cap Reach(last.post, SplitR) = {}

C9_Witness ==
  /\ last.called
  /\ Cardinality(Reach(last.pre, SplitT)) = 2
  /\ Cardinality(Reach(Heap, x)) = 3

\* C10: in the split made by insert and in every call nested in it, the
\* final assignment stores the node treap referred to on entry, the aliasing
\* of treap with an out-parameter notwithstanding.
C10_SplitStoresEntryNode ==
  last.called =>
    StoresEntryNode(last.pre, last.treap, last.k,
                    <<"left", last.new_node>>, <<"right", last.new_node>>)
====
